---- MODULE Spec2Model ----
(***************************************************************************)
(* A model of hrrr_ingest: the DuckDB store adapter (db.py), the GRIB      *)
(* downloader and its file cache (downloader.py), the message selector     *)
(* and extractor (parser.py), the variable catalog (utils.py) and the      *)
(* per-hour loop of the orchestrator (cli.py).                             *)
(*                                                                         *)
(* Coordinates and values are integers (hundredths of a degree, tenths of  *)
(* a unit); timestamps are hours.  A raised Python exception is the        *)
(* record field "raised" of a call's outcome.                              *)
(***************************************************************************)
EXTENDS Integers, Sequences, FiniteSets, TLC

VARIABLES
    \* ---- db.py: HrrrDatabase
    table,          \* rows of hrrr_forecasts, in insertion order
    table_exists,   \* CREATE TABLE IF NOT EXISTS has run
    db_log,         \* the calls made on the adapter, oldest first
    \* ---- downloader.py: the cache directory and the calls of download_grib
    cache,          \* local filename -> content of the file, or Absent
    fetches,        \* number of requests.get issued
    dl_last,        \* the last call of download_grib and its outcome
    \* ---- parser.py: one call of parse_grib_file, statement by statement
    ppc,            \* position in parse_grib_file
    handles,        \* number of open pygrib handles
    pfile,          \* the GRIB file of the call in progress
    pconfigs,       \* its variable_configs, in dict order
    ppoints,        \* its target_points
    pidx,           \* index of the config entry the loop is at
    results,        \* results list of parse_variables_at_points
    poutcome,       \* how the last call ended
    pcalls,         \* number of calls of parse_grib_file started
    \* ---- cli.py: main
    mpc,            \* position in main
    args,           \* the parsed command line
    variable_configs, \* build_variable_configs(variables)
    points,         \* read_points_file(args.points_file)
    db_conn,        \* "none", "open" or "closed": the HrrrDatabase of main
    hour,           \* loop variable of the per-hour loop
    attempted,      \* forecast hours handed to process_forecast_hour
    hour_outcomes,  \* what each attempted hour ended with
    all_dataframes, \* batches that passed validation
    exit_code,      \* None while running, 0 completed, 1 sys.exit(1)
    \* ---- utils.py: one call of find_nearest_grid_point
    loc_target,     \* <<target_lat, target_lon>>
    loc_lattice,    \* [lats, lons]: the two 2D arrays
    loc_nearest,    \* <<row, col>> returned, NotLocated before the call
    \* ---- transformer.py: one call of transform_to_long_format
    tf_parsed,      \* parsed_data
    tf_source,      \* source_s3
    tf_out,         \* what the call returned or raised
    \* ---- transformer.py: one call of validate_dataframe
    vd_df,          \* the DataFrame
    vd_out,         \* what the call returned and whether it logged a warning
    \* ---- cli.py: the pipeline of one forecast hour
    hp_in,          \* the file served, the variables, the points
    hp_out,         \* what the hour ended with
    \* ---- transformer.py: one call of combine_forecast_data
    cb_in,          \* dataframes
    cb_out,         \* what the call returned
    \* ---- utils.py: the catalog looked up for a list of argument names
    cat_in,         \* variables
    cat_out,        \* what each lookup returned or raised
    \* ---- utils.py: one call of read_points_file
    pf_in,          \* the lines of the file
    pf_out          \* what the call returned or raised

storeVars == <<table, table_exists, db_log>>
dlVars    == <<cache, fetches, dl_last>>
parseVars == <<ppc, handles, pfile, pconfigs, ppoints, pidx, results, poutcome, pcalls>>
mainVars  == <<mpc, args, variable_configs, points, db_conn, hour, attempted, hour_outcomes,
              all_dataframes, exit_code>>
locVars   == <<loc_target, loc_lattice, loc_nearest>>
tfVars    == <<tf_parsed, tf_source, tf_out>>
vdVars    == <<vd_df, vd_out>>
hpVars    == <<hp_in, hp_out>>
cbVars    == <<cb_in, cb_out>>
catVars   == <<cat_in, cat_out>>
pfVars    == <<pf_in, pf_out>>
pureVars  == <<locVars, tfVars, vdVars, hpVars, cbVars, catVars, pfVars>>
vars      == <<storeVars, dlVars, parseVars, mainVars, pureVars>>

None == "None"

RECURSIVE SeqsUpTo(_, _)
\* All sequences over S of length 0..n.
SeqsUpTo(S, n) ==
    IF n = 0 THEN {<<>>}
    ELSE LET shorter == SeqsUpTo(S, n - 1)
         IN shorter \cup {Append(s, x) : s \in {t \in shorter : Len(t) = n - 1}, x \in S}

(***************************************************************************)
(* db.py                                                                   *)
(***************************************************************************)

\* Bounds of the store model.
MaxBatch   == 2     \* rows in one DataFrame
MaxDbCalls == 2     \* adapter calls in one behaviour

\* The rows a DataFrame may hold: two dedup keys, two values each.
Rows ==
    [valid_time_utc : {12, 13}, run_time_utc : {0}, latitude : {4071},
     longitude : {-7401}, variable : {"temperature_2m"}, value : {155, 200},
     source_s3 : {"s3://test/file1.grib2"}]

DataFrames == SeqsUpTo(Rows, MaxBatch)

\* CREATE TABLE IF NOT EXISTS hrrr_forecasts (...): seven plain columns,
\* no PRIMARY KEY and no UNIQUE constraint.
create_forecast_table(exists) == TRUE

\* INSERT INTO hrrr_forecasts SELECT * FROM df: every row of df is appended.
InsertSelect(rows, df) == rows \o df

\* An insert that reports a failed write as zero rows inserted.
InsertSwallowsFailure(rows, exists, df, fault) ==
    [table |-> IF fault THEN rows ELSE InsertSelect(rows, df),
     exists |-> exists, ret |-> IF fault THEN 0 ELSE Len(df), raised |-> None,
     failed |-> fault /\ df # <<>>]

\* insert_forecast_data(df): the table after the call and what it returns
\* (ret is meaningful only when nothing was raised); failed: the connection
\* refused the CREATE TABLE or the INSERT.
insert_forecast_data(rows, exists, df, fault) ==
    IF df = <<>>
    THEN [table |-> rows, exists |-> exists, ret |-> 0, raised |-> None, failed |-> FALSE]
    ELSE IF fault
         THEN [table |-> rows, exists |-> create_forecast_table(exists), ret |-> 0,
               raised |-> "RuntimeError", failed |-> TRUE]
         ELSE [table |-> InsertSelect(rows, df), exists |-> create_forecast_table(exists),
               ret |-> Len(df), raised |-> None, failed |-> FALSE]

\* upsert_forecast_data(df): the same INSERT ("we don't have unique constraints").
upsert_forecast_data(rows, exists, df, fault) ==
    IF df = <<>>
    THEN [table |-> rows, exists |-> exists, ret |-> 0, raised |-> None, failed |-> FALSE]
    ELSE IF fault
         THEN [table |-> rows, exists |-> create_forecast_table(exists), ret |-> 0,
               raised |-> "RuntimeError", failed |-> TRUE]
         ELSE [table |-> InsertSelect(rows, df), exists |-> create_forecast_table(exists),
               ret |-> Len(df), raised |-> None, failed |-> FALSE]

DbCall(op, df, out) ==
    /\ table' = out.table
    /\ table_exists' = out.exists
    /\ db_log' = Append(db_log, [op |-> op, df |-> df, ret |-> out.ret,
                                 raised |-> out.raised, failed |-> out.failed,
                                 before |-> Len(table), after |-> Len(out.table)])

Insert ==
    /\ Len(db_log) < MaxDbCalls
    /\ \E df \in DataFrames, fault \in BOOLEAN :
          DbCall("insert", df, insert_forecast_data(table, table_exists, df, fault))
    /\ UNCHANGED <<dlVars, parseVars, mainVars, pureVars>>

Upsert ==
    /\ Len(db_log) < MaxDbCalls
    /\ \E df \in DataFrames, fault \in BOOLEAN :
          DbCall("upsert", df, upsert_forecast_data(table, table_exists, df, fault))
    /\ UNCHANGED <<dlVars, parseVars, mainVars, pureVars>>

(***************************************************************************)
(* utils.py: run dates and URLs                                            *)
(***************************************************************************)

\* A run date "YYYY-MM-DD" as its three numbers.
GoodDate == [y |-> 2025, m |-> 1, d |-> 24]
BadDate  == [y |-> 2025, m |-> 13, d |-> 1]

\* parse_run_date: datetime.strptime(run_date, "%Y-%m-%d"); ValueError when the
\* text is no calendar date.  The parsed datetime is midnight of that day.
parse_run_date(run_date) ==
    IF run_date.m \in 1..12 /\ run_date.d \in 1..31
    THEN [raised |-> None, date |-> run_date, hh |-> 0]
    ELSE [raised |-> "ValueError", date |-> run_date, hh |-> 0]

\* strftime("%Y%m%d") and run_date.replace("-", ""): the eight digits.
DateDigits(run_date) == run_date.y * 10000 + run_date.m * 100 + run_date.d

\* build_s3_url: f"{base_path}.{date_str}/conus/hrrr.t{hour_str}z.wrfsfc{forecast_str}.grib2"
build_s3_url(run_date, forecast_hour, base_path) ==
    [base |-> base_path, date |-> DateDigits(run_date),
     cycle |-> parse_run_date(run_date).hh, fxx |-> forecast_hour]

(***************************************************************************)
(* downloader.py                                                           *)
(***************************************************************************)

\* Bounds of the downloader model.
MaxDlHour  == 1     \* forecast hours 0..MaxDlHour are requested
MaxFetches == 3     \* network fetches in one behaviour

\* Bound of the orchestrator model: the largest --num-hours of a run.
MaxHours == 3

\* Program constant: the last forecast hour download_grib accepts.
LastForecastHour == 48

NoBase == [scheme |-> None, rest |-> None]
NoUrl  == [base |-> NoBase, date |-> 0, cycle |-> 0, fxx |-> 0]
NoPath == [date |-> 0, fxx |-> 0]
Absent == [state |-> "absent", url |-> NoUrl]

\* base_path values: a scheme and the rest of the path.
DefaultBasePath == [scheme |-> "s3", rest |-> "noaa-hrrr-bdp-pds.s3.amazonaws.com/hrrr"]
BasePaths == {DefaultBasePath, [scheme |-> "s3", rest |-> "custom-bucket/hrrr"]}

DlRunDates == {GoodDate, BadDate}
DlHours    == (0..MaxDlHour) \cup {LastForecastHour + 1}

\* What the network and the local disk do to one attempt.
DlOutcomes == {"ok", "get_error", "http_error", "open_error", "stream_error", "write_error"}

\* local_filename: built from the run date's digits and the forecast hour only.
local_filename(run_date, forecast_hour) ==
    [date |-> DateDigits(run_date), fxx |-> forecast_hour]

\* The files the cache directory may come to hold.
CacheHours == 0..(IF MaxDlHour > MaxHours - 1 THEN MaxDlHour ELSE MaxHours - 1)
CacheFiles == {local_filename(GoodDate, h) : h \in CacheHours}

\* s3_url.replace("s3://", "https://")
http_url(s3_url) ==
    IF s3_url.base.scheme = "s3"
    THEN [s3_url EXCEPT !.base = [scheme |-> "https", rest |-> s3_url.base.rest]]
    ELSE s3_url

\* local_path.exists()
Exists(files, name) == files[name].state # "absent"

\* The except clause of download_grib: only requests.RequestException is caught,
\* and then the partial file is unlinked.
CleanUp(files, name, exc) ==
    IF exc = "RequestException" THEN [files EXCEPT ![name] = Absent] ELSE files

\* A download_grib that never looks at the cache.
CacheHitNever(files, name) == FALSE

\* The check at the head of download_grib: a file at local_path is returned as is.
CacheHit(files, name) == Exists(files, name)

\* download_grib(run_date, forecast_hour, cache_dir, base_path) under one outcome
\* of the network and the disk: the cache after the call, the path returned or
\* the exception raised, and whether requests.get was issued.
download_grib(files, run_date, forecast_hour, base_path, outcome) ==
    LET name    == local_filename(run_date, forecast_hour)
        url     == http_url(build_s3_url(run_date, forecast_hour, base_path))
        partial == [files EXCEPT ![name] = [state |-> "partial", url |-> url]]
    IN  IF forecast_hour < 0 \/ forecast_hour > LastForecastHour
        THEN [cache |-> files, ret |-> NoPath, raised |-> "ValueError", fetched |-> FALSE]
        ELSE IF parse_run_date(run_date).raised # None
        THEN [cache |-> files, ret |-> NoPath, raised |-> "ValueError", fetched |-> FALSE]
        ELSE IF CacheHit(files, name)
        THEN [cache |-> files, ret |-> name, raised |-> None, fetched |-> FALSE]
        ELSE CASE outcome \in {"get_error", "http_error"} ->
                    \* raised before open(local_path, 'wb')
                    [cache |-> CleanUp(files, name, "RequestException"), ret |-> NoPath,
                     raised |-> "RequestException", fetched |-> TRUE]
               [] outcome = "open_error" ->
                    [cache |-> CleanUp(files, name, "OSError"), ret |-> NoPath,
                     raised |-> "OSError", fetched |-> TRUE]
               [] outcome = "stream_error" ->
                    \* iter_content raises after the file was created
                    [cache |-> CleanUp(partial, name, "RequestException"), ret |-> NoPath,
                     raised |-> "RequestException", fetched |-> TRUE]
               [] outcome = "write_error" ->
                    \* f.write raises after the file was created
                    [cache |-> CleanUp(partial, name, "OSError"), ret |-> NoPath,
                     raised |-> "OSError", fetched |-> TRUE]
               [] OTHER ->
                    [cache |-> [files EXCEPT ![name] = [state |-> "complete", url |-> url]],
                     ret |-> name, raised |-> None, fetched |-> TRUE]

NoCall ==
    [run_date |-> GoodDate, forecast_hour |-> 0, base_path |-> None, ret |-> NoPath,
     raised |-> None, fetched |-> FALSE, existed |-> FALSE, before |-> Absent,
     others_kept |-> TRUE, fetches_before |-> 0]

Download ==
    /\ fetches < MaxFetches
    /\ \E run_date \in DlRunDates, forecast_hour \in DlHours, base_path \in BasePaths,
          outcome \in DlOutcomes :
          LET out  == download_grib(cache, run_date, forecast_hour, base_path, outcome)
              name == local_filename(run_date, forecast_hour)
              seen == name \in CacheFiles
          IN  /\ cache' = out.cache
              /\ fetches' = IF out.fetched THEN fetches + 1 ELSE fetches
              /\ dl_last' =
                    [run_date |-> run_date, forecast_hour |-> forecast_hour,
                     base_path |-> base_path.rest, ret |-> out.ret, raised |-> out.raised,
                     fetched |-> out.fetched,
                     existed |-> seen /\ Exists(cache, name),
                     before |-> IF seen THEN cache[name] ELSE Absent,
                     others_kept |-> \A f \in CacheFiles : f # name => out.cache[f] = cache[f],
                     fetches_before |-> fetches]
    /\ UNCHANGED <<storeVars, parseVars, mainVars, pureVars>>

(***************************************************************************)
(* utils.py: the variable catalog and the grid locator                     *)
(***************************************************************************)

\* Program constant: the level of the two 80m wind components.
Level80 == 80

\* ALLOWED_VARIABLES: argument name -> GRIB field name.
ALLOWED_VARIABLES ==
    [surface_pressure                    |-> "Surface pressure",
     surface_roughness                   |-> "Surface roughness",
     visible_beam_downward_solar_flux    |-> "Visible beam downward solar flux",
     visible_diffuse_downward_solar_flux |-> "Visible diffuse downward solar flux",
     temperature_2m                      |-> "2 metre temperature",
     dewpoint_2m                         |-> "2 metre dewpoint temperature",
     relative_humidity_2m                |-> "2 metre relative humidity",
     u_component_wind_10m                |-> "10 metre U wind component",
     v_component_wind_10m                |-> "10 metre V wind component",
     u_component_wind_80m                |-> "U component of wind",
     v_component_wind_80m                |-> "V component of wind"]

\* get_allowed_variables
get_allowed_variables == DOMAIN ALLOWED_VARIABLES

\* VARIABLE_LEVELS: the select() keywords a variable adds, as <<key, value>> pairs.
VARIABLE_LEVELS ==
    [u_component_wind_80m |-> {<<"level", Level80>>},
     v_component_wind_80m |-> {<<"level", Level80>>}]

\* get_grib_variable_name: ValueError for a name outside ALLOWED_VARIABLES.
get_grib_variable_name(argument_name) ==
    IF argument_name \notin DOMAIN ALLOWED_VARIABLES
    THEN [raised |-> "ValueError", ret |-> None]
    ELSE [raised |-> None, ret |-> ALLOWED_VARIABLES[argument_name]]

\* A catalog in which no variable has a level.
NoLevelConfig(argument_name) == {}

\* get_variable_level_config: VARIABLE_LEVELS.get(argument_name, {})
get_variable_level_config(argument_name) ==
    IF argument_name \in DOMAIN VARIABLE_LEVELS THEN VARIABLE_LEVELS[argument_name] ELSE {}

\* map_variables_to_grib_names: validate_variables, which raises ValueError
\* when some name is not allowed, then the GRIB name of each variable.
map_variables_to_grib_names(variables) ==
    IF \E i \in 1..Len(variables) : variables[i] \notin get_allowed_variables
    THEN [raised |-> "ValueError", ret |-> <<>>]
    ELSE [raised |-> None,
          ret |-> [i \in 1..Len(variables) |-> get_grib_variable_name(variables[i]).ret]]

\* Bound of the catalog model: names looked up in one list.
MaxCatNames == 2

\* The names the catalog is asked for: the allowed ones and some others.
CatNames == get_allowed_variables \cup {"not_a_variable", "wind_anywhere", "Temperature_2m", ""}

\* The catalog looked up for every name of a list: the GRIB name or the
\* exception of get_grib_variable_name and the level configuration of each
\* name, and the list mapped as a whole.
Lookup ==
    /\ ~cat_out.called
    /\ cat_out' =
          [called |-> TRUE,
           lookups |-> [i \in 1..Len(cat_in) |->
                          [raised |-> get_grib_variable_name(cat_in[i]).raised,
                           grib_name |-> get_grib_variable_name(cat_in[i]).ret,
                           level_config |-> get_variable_level_config(cat_in[i])]],
           mapped |-> map_variables_to_grib_names(cat_in)]
    /\ UNCHANGED cat_in
    /\ UNCHANGED <<storeVars, dlVars, parseVars, mainVars, locVars, tfVars, vdVars, hpVars>>
    /\ UNCHANGED <<cbVars, pfVars>>

\* (grid_lats - target_lat) ** 2 + (grid_lons - target_lon) ** 2 at one cell.
Dist2(target_lat, target_lon, grid_lat, grid_lon) ==
    (grid_lat - target_lat) * (grid_lat - target_lat)
        + (grid_lon - target_lon) * (grid_lon - target_lon)

RECURSIVE NearestRoot(_, _, _)
\* The least k in lo..hi with x <= k * (k + 1), by bisection (the test is
\* written with a division so that no product leaves the machine integers).
NearestRoot(x, lo, hi) ==
    IF lo >= hi THEN lo
    ELSE LET mid == (lo + hi) \div 2
             fits == IF mid = 0 THEN x <= 0 ELSE (x + mid - 1) \div mid <= mid + 1
         IN IF fits THEN NearestRoot(x, lo, mid) ELSE NearestRoot(x, mid + 1, hi)

\* np.sqrt: the square root rounded to the nearest representable number.  The
\* representable numbers of the model are the integers, so two different
\* squares may have the same root, as two neighbouring doubles may.
Sqrt(x) == NearestRoot(x, 0, x)

RECURSIVE ArgMin(_, _, _)
\* np.argmin over the flattened array d: the first index holding the minimum.
\* ArgMin(d, i, best) scans d from index i with the best index so far.
ArgMin(d, i, best) ==
    IF i > Len(d) THEN best
    ELSE ArgMin(d, i + 1, IF d[i] < d[best] THEN i ELSE best)

\* np.unravel_index(k, shape): index k of the row-major flattening of an array
\* of ncols columns, as <<row, col>> (indices are 1-based here).
unravel_index(k, ncols) == <<((k - 1) \div ncols) + 1, ((k - 1) % ncols) + 1>>

RECURSIVE Ravel(_)
\* The row-major flattening of a two-dimensional array, as np.argmin takes it
\* when no axis is given.
Ravel(rows) ==
    IF rows = <<>> THEN <<>> ELSE Head(rows) \o Ravel(Tail(rows))

\* find_nearest_grid_point: distances over the whole lattice, np.argmin of the
\* row-major flattening, np.unravel_index back to <<row, col>>.
find_nearest_grid_point(target_lat, target_lon, grid_lats, grid_lons) ==
    LET ncols     == Len(grid_lats[1])
        distances == [r \in 1..Len(grid_lats) |->
                        [c \in 1..ncols |->
                            Sqrt(Dist2(target_lat, target_lon,
                                       grid_lats[r][c], grid_lons[r][c]))]]
    IN  unravel_index(ArgMin(Ravel(distances), 1, 1), ncols)

\* Bounds of the grid locator model: the shape of the largest lattice.
MaxRows == 2
MaxCols == 2

\* Coordinates a lattice cell may have, as <<lat, lon>>.
CellCoords == {<<0, 0>>, <<1, 0>>, <<1, 1>>}

\* Every lattice of 1..rows rows and 1..cols columns over CellCoords.
Lattices(rows, cols) ==
    UNION {{[lats |-> [r \in 1..nr |-> [c \in 1..nc |-> cells[r][c][1]]],
             lons |-> [r \in 1..nr |-> [c \in 1..nc |-> cells[r][c][2]]]] :
               cells \in [1..nr -> [1..nc -> CellCoords]]} :
           nr \in 1..rows, nc \in 1..cols}

LocTargets == {<<0, 0>>, <<1, 1>>, <<0, 1>>, <<2, 0>>}

NotLocated == <<0, 0>>

\* One call of find_nearest_grid_point.
Locate ==
    /\ loc_nearest = NotLocated
    /\ loc_nearest' = find_nearest_grid_point(loc_target[1], loc_target[2],
                                              loc_lattice.lats, loc_lattice.lons)
    /\ UNCHANGED <<loc_target, loc_lattice>>
    /\ UNCHANGED <<storeVars, dlVars, parseVars, mainVars, tfVars, vdVars, hpVars>>
    /\ UNCHANGED <<cbVars, catVars, pfVars>>

(***************************************************************************)
(* parser.py                                                               *)
(***************************************************************************)

\* Bounds of the parser model.
MaxMsgs       == 2     \* messages in one GRIB file
MaxVars       == 2     \* entries of variable_configs
MaxPoints     == 1     \* target points
MaxParseCalls == 2     \* calls of parse_grib_file in one behaviour

\* The HRRR lattice of the model: 2 x 2 cells.
GridLats == <<<<0, 100>>, <<0, 100>>>>
GridLons == <<<<0, 0>>, <<100, 100>>>>

\* A decoded message.  readable = FALSE: latlons()/values raise a decode error.
Message(name, level, level_type, readable, v) ==
    [name |-> name, level |-> level, typeOfLevel |-> level_type, readable |-> readable,
     lats |-> GridLats, lons |-> GridLons,
     values |-> <<<<v, v + 1>>, <<v + 2, v + 3>>>>,
     validDate |-> 12, analDate |-> 0]

Messages ==
    {Message("2 metre temperature", 2, "heightAboveGround", TRUE, 2880),
     Message("2 metre temperature", 2, "heightAboveGround", FALSE, 2880),
     Message("2 metre temperature", 2, "heightAboveGround", TRUE, 2950),
     Message("U component of wind", 10, "heightAboveGround", TRUE, 30),
     Message("U component of wind", Level80, "heightAboveGround", TRUE, 70)}

\* A GRIB file on disk: whether pygrib.open succeeds, and its messages in order.
GribFiles ==
    {[openable |-> TRUE, messages |-> ms] : ms \in SeqsUpTo(Messages, MaxMsgs)}
        \cup {[openable |-> FALSE, messages |-> <<>>]}

\* One item of variable_configs: the dict key and its value.
ConfigEntry(grib_name, level_config, argument_name) ==
    [grib_name |-> grib_name, level_config |-> level_config, argument_name |-> argument_name]

\* The entry the catalog yields for an allowed argument name.
CatalogEntry(argument_name) ==
    ConfigEntry(get_grib_variable_name(argument_name).ret,
                get_variable_level_config(argument_name), argument_name)

\* Entries a caller of parse_grib_file may pass: two from the catalog, and two
\* whose argument name is not an allowed variable.
ConfigEntries ==
    {CatalogEntry("temperature_2m"), CatalogEntry("u_component_wind_80m"),
     ConfigEntry("Not a field", {}, "not_a_variable"),
     ConfigEntry("U component of wind", {}, "wind_anywhere")}

\* variable_configs is a dict: its keys (GRIB names) are distinct.
VariableConfigs ==
    {cs \in SeqsUpTo(ConfigEntries, MaxVars) :
        \A i, j \in 1..Len(cs) : i # j => cs[i].grib_name # cs[j].grib_name}

TargetPoints == {<<0, 0>>, <<110, 110>>}
PointLists   == SeqsUpTo(TargetPoints, MaxPoints) \ {<<>>}

\* The value of a message key used as a select() keyword.
MessageKey(message, key) ==
    IF key = "level" THEN message.level ELSE 0 - 1

\* A selection by field name alone.
MatchesNameOnly(message, grib_name, level_config) == message.name = grib_name

\* Whether a message satisfies select(name=grib_name, **level_config).
Matches(message, grib_name, level_config) ==
    /\ message.name = grib_name
    /\ \A kv \in level_config : MessageKey(message, kv[1]) = kv[2]

RECURSIVE SelectFrom(_, _, _)
\* self.grib.select(**select_args): the matching messages, in file order.
\* (pygrib raises ValueError when there is none; the loop body then ends in
\* its except clause, with the same effect as the "if not grb" branch.)
SelectFrom(messages, grib_name, level_config) ==
    IF messages = <<>> THEN <<>>
    ELSE LET rest == SelectFrom(Tail(messages), grib_name, level_config)
         IN IF Matches(Head(messages), grib_name, level_config)
            THEN <<Head(messages)>> \o rest
            ELSE rest

\* The point_data entry read at cell <<row_idx, col_idx>> of the message.
PointDataAt(message, argument_name, point, row_idx, col_idx) ==
    [target_lat |-> point[1], target_lon |-> point[2],
     grid_lat |-> message.lats[row_idx][col_idx],
     grid_lon |-> message.lons[row_idx][col_idx],
     value |-> message.values[row_idx][col_idx],
     variable |-> argument_name,
     level_type |-> message.typeOfLevel, level |-> message.level,
     valid_time |-> message.validDate, run_time |-> message.analDate]

\* A point_data entry whose grid coordinates are the target's.
PointDataEchoesTarget(message, argument_name, point) ==
    [PointDataAt(message, argument_name, point, 1, 1)
        EXCEPT !.grid_lat = point[1], !.grid_lon = point[2]]

\* One entry of point_data: the cell is the one find_nearest_grid_point
\* returns for the point.
PointData(message, argument_name, point) ==
    LET at(rc) == PointDataAt(message, argument_name, point, rc[1], rc[2])
    IN  at(find_nearest_grid_point(point[1], point[2], message.lats, message.lons))

\* var_data of one selected message.
VarData(message, argument_name, target_points) ==
    [variable_name |-> argument_name,
     level_type |-> message.typeOfLevel, level |-> message.level,
     valid_time |-> message.validDate, run_time |-> message.analDate,
     point_data |-> [i \in 1..Len(target_points) |->
                        PointData(message, argument_name, target_points[i])]]

NoVarData == VarData(Message(None, 0, None, TRUE, 0), None, <<>>)

\* A miss that ends the loop instead of going on to the next entry.
NoMatchBreaks == "break"

\* The "if not grb" branch of the loop body: log and "continue".
NoMatchBranch == "continue"

\* What the except clause of the loop body does with an exception raised in
\* the try block: "except Exception" logs it and goes on to the next entry.
ExceptClause(exc) == "continue"

\* A selection that takes the last matching message.
LastMatch(grb) == grb[Len(grb)]

\* message = grb[0]: the first matching message in file order.
FirstMatch(grb) == grb[1]

\* The body of the for loop of parse_variables_at_points for one entry:
\* "append" (var_data is added to results), "continue" (the entry is skipped),
\* "break" (the loop ends) or "raise" (an exception leaves the loop).
LoopBody(messages, entry, target_points) ==
    LET grb == SelectFrom(messages, entry.grib_name, entry.level_config)
    IN  IF grb = <<>>
        THEN [do |-> NoMatchBranch, why |-> "no_match", var_data |-> NoVarData]
        ELSE IF ~FirstMatch(grb).readable
        THEN [do |-> ExceptClause("decode_error"), why |-> "decode_error",
              var_data |-> NoVarData]
        ELSE [do |-> "append", why |-> None,
              var_data |-> VarData(FirstMatch(grb), entry.argument_name, target_points)]

\* A close that releases nothing.
GribParserCloseLeak(open_handles) == open_handles

\* GribParser.close
GribParserClose(open_handles) == open_handles - 1

NoFile == [openable |-> FALSE, messages |-> <<>>]

\* The locals of a finished call are gone: only how it ended is kept.
CallEnds(how, why) ==
    /\ ppc' = "idle"
    /\ poutcome' = [how |-> how, why |-> why]
    /\ pfile' = NoFile
    /\ pconfigs' = <<>>
    /\ ppoints' = <<>>
    /\ pidx' = 1
    /\ results' = <<>>

\* GribParser.__init__ / _open_grib at the head of parse_grib_file: a failure
\* of pygrib.open is re-raised as RuntimeError before the try block is entered.
ParseStart ==
    /\ ppc = "idle"
    /\ pcalls < MaxParseCalls
    /\ pcalls' = pcalls + 1
    /\ \E grib \in GribFiles, configs \in VariableConfigs, target_points \in PointLists :
          IF grib.openable
          THEN /\ handles' = handles + 1
               /\ ppc' = "loop"
               /\ poutcome' = [how |-> "running", why |-> None]
               /\ pfile' = grib
               /\ pconfigs' = configs
               /\ ppoints' = target_points
               /\ pidx' = 1
               /\ results' = <<>>
          ELSE /\ handles' = handles
               /\ CallEnds("RuntimeError", "open")
    /\ UNCHANGED <<storeVars, dlVars, mainVars, pureVars>>

\* One iteration of the for loop of parse_variables_at_points.  An exception
\* that leaves the loop body runs the finally clause of parse_grib_file.
ParseVariable ==
    /\ ppc = "loop"
    /\ pidx <= Len(pconfigs)
    /\ LET step == LoopBody(pfile.messages, pconfigs[pidx], ppoints)
       IN  IF step.do = "raise"
           THEN /\ handles' = GribParserClose(handles)
                /\ CallEnds("Exception", step.why)
           ELSE /\ results' = IF step.do = "append" THEN Append(results, step.var_data)
                              ELSE results
                /\ pidx' = IF step.do = "break" THEN Len(pconfigs) + 1 ELSE pidx + 1
                /\ UNCHANGED <<handles, ppc, poutcome, pfile, pconfigs, ppoints>>
    /\ UNCHANGED pcalls
    /\ UNCHANGED <<storeVars, dlVars, mainVars, pureVars>>

\* "return results" once the loop is over, then the finally clause of
\* parse_grib_file.
ParseReturn ==
    /\ ppc = "loop"
    /\ pidx > Len(pconfigs)
    /\ handles' = GribParserClose(handles)
    /\ CallEnds("returned", None)
    /\ UNCHANGED pcalls
    /\ UNCHANGED <<storeVars, dlVars, mainVars, pureVars>>

\* A KeyboardInterrupt during the extraction: not an Exception, so no except
\* clause of the loop catches it; the finally clause of parse_grib_file runs.
ParseInterrupt ==
    /\ ppc = "loop"
    /\ handles' = GribParserClose(handles)
    /\ CallEnds("KeyboardInterrupt", None)
    /\ UNCHANGED pcalls
    /\ UNCHANGED <<storeVars, dlVars, mainVars, pureVars>>

RECURSIVE parse_variables_at_points(_, _, _)
\* parse_variables_at_points as a whole: the results list.
parse_variables_at_points(messages, configs, target_points) ==
    IF configs = <<>> THEN <<>>
    ELSE LET step == LoopBody(messages, Head(configs), target_points)
             rest == parse_variables_at_points(messages, Tail(configs), target_points)
         IN IF step.do = "append" THEN <<step.var_data>> \o rest
            ELSE IF step.do = "continue" THEN rest
            ELSE <<>>

\* parse_grib_file as a whole.
parse_grib_file(grib, configs, target_points) ==
    IF ~grib.openable THEN [raised |-> "RuntimeError", ret |-> <<>>]
    ELSE [raised |-> None,
          ret |-> parse_variables_at_points(grib.messages, configs, target_points)]

(***************************************************************************)
(* transformer.py                                                          *)
(***************************************************************************)

RECURSIVE Flatten(_)
\* The concatenation of a sequence of sequences.
Flatten(seqs) == IF seqs = <<>> THEN <<>> ELSE Head(seqs) \o Flatten(Tail(seqs))

\* A row that carries the coordinates of the target point.
LongRowAtTarget(var_data, point_data, source_s3) ==
    [valid_time_utc |-> var_data.valid_time, run_time_utc |-> var_data.run_time,
     latitude |-> point_data.target_lat, longitude |-> point_data.target_lon,
     variable |-> var_data.variable_name, value |-> point_data.value,
     source_s3 |-> source_s3]

\* The row built from one entry of point_data: the grid coordinates, the
\* variable name of var_data, the times of var_data.
LongRow(var_data, point_data, source_s3) ==
    [valid_time_utc |-> var_data.valid_time, run_time_utc |-> var_data.run_time,
     latitude |-> point_data.grid_lat, longitude |-> point_data.grid_lon,
     variable |-> var_data.variable_name, value |-> point_data.value,
     source_s3 |-> source_s3]

\* A transform without the "if not parsed_data" guard.
TransformUnguarded(parsed_data, source_s3) ==
    LET rows == Flatten([i \in 1..Len(parsed_data) |->
                    [j \in 1..Len(parsed_data[i].point_data) |->
                        LongRow(parsed_data[i], parsed_data[i].point_data[j], source_s3)]])
    IN  IF rows = <<>> THEN [raised |-> "KeyError", df |-> <<>>]
        ELSE [raised |-> None, df |-> rows]

\* transform_to_long_format: an empty DataFrame for no parsed data; KeyError
\* from df['valid_time_utc'] when there is parsed data but not one row.
transform_to_long_format(parsed_data, source_s3) ==
    LET rows == Flatten([i \in 1..Len(parsed_data) |->
                    [j \in 1..Len(parsed_data[i].point_data) |->
                        LongRow(parsed_data[i], parsed_data[i].point_data[j], source_s3)]])
    IN  IF parsed_data = <<>> THEN [raised |-> None, df |-> <<>>]
        ELSE IF rows = <<>> THEN [raised |-> "KeyError", df |-> <<>>]
        ELSE [raised |-> None, df |-> rows]

\* Bounds of the transformer model.
MaxObs         == 2     \* entries of point_data in one var_data
MaxExtractions == 2     \* entries of parsed_data

\* var_data dictionaries as the parser builds them, for 0..n points.
TfVarDatas(n) ==
    {VarData(Message("2 metre temperature", 2, "heightAboveGround", TRUE, 2880),
             "temperature_2m", pts) : pts \in SeqsUpTo(TargetPoints, n)}
      \cup
    {VarData(Message("U component of wind", Level80, "heightAboveGround", TRUE, 70),
             "u_component_wind_80m", pts) : pts \in SeqsUpTo(TargetPoints, n)}

\* parsed_data lists of up to n entries.
TfParsed(n) == SeqsUpTo(TfVarDatas(MaxObs), n)
TfSources == {build_s3_url(GoodDate, 0, base_path) : base_path \in BasePaths}

\* One call of transform_to_long_format.
Transform ==
    /\ ~tf_out.called
    /\ LET out == transform_to_long_format(tf_parsed, tf_source)
       IN  tf_out' = [called |-> TRUE, raised |-> out.raised, df |-> out.df]
    /\ UNCHANGED <<tf_parsed, tf_source>>
    /\ UNCHANGED <<storeVars, dlVars, parseVars, mainVars, locVars, vdVars, hpVars>>
    /\ UNCHANGED <<cbVars, catVars, pfVars>>

\* required_columns of validate_dataframe.
required_columns ==
    {"valid_time_utc", "run_time_utc", "latitude", "longitude", "variable", "value",
     "source_s3"}

\* expected_types of validate_dataframe.
expected_types ==
    [valid_time_utc |-> "datetime64[ns]", run_time_utc |-> "datetime64[ns]",
     latitude |-> "float64", longitude |-> "float64", variable |-> "object",
     value |-> "float64", source_s3 |-> "object"]

\* A pandas DataFrame: the columns it has, their dtypes, its rows, and the
\* cells that are null (NaN/NaT/None) as <<row index, column>>.  A row
\* record carries a value for every column; one of a column the frame lacks,
\* or of a null cell, is never looked at.
DataFrame(columns, dtypes, nulls, rows) ==
    [columns |-> columns, dtypes |-> dtypes, nulls |-> nulls, rows |-> rows]

\* pd.DataFrame(rows) followed by the astype conversions of
\* transform_to_long_format: all seven columns, no null cell.
DataFrameOf(rows) == DataFrame(required_columns, expected_types, {}, rows)

\* A latitude check that also refuses the two boundary values.
InvalidLatOpen(lat) == lat <= -9000 \/ lat >= 9000

\* (df['latitude'] < -90) | (df['latitude'] > 90), in hundredths of a degree.
InvalidLat(lat) == lat < -9000 \/ lat > 9000

\* (df['longitude'] < -180) | (df['longitude'] > 180)
InvalidLon(lon) == lon < -18000 \/ lon > 18000

\* A validation that accepts every DataFrame.
ValidateAccepts(df) == [ret |-> TRUE, warned |-> FALSE]

\* validate_dataframe: False for a missing column; a warning for a dtype that
\* is not the expected one and for null cells; False for a latitude or a
\* longitude out of range (a comparison with NaN is false, so a null cell is
\* never out of range); True otherwise.
validate_dataframe(df) ==
    LET missing_columns == required_columns \ df.columns
        mistyped     == {col \in df.columns : df.dtypes[col] # expected_types[col]}
        invalid_lats == {i \in 1..Len(df.rows) :
                            <<i, "latitude">> \notin df.nulls /\ InvalidLat(df.rows[i].latitude)}
        invalid_lons == {i \in 1..Len(df.rows) :
                            <<i, "longitude">> \notin df.nulls
                                /\ InvalidLon(df.rows[i].longitude)}
        warned       == mistyped # {} \/ df.nulls # {}
    IN  IF missing_columns # {} THEN [ret |-> FALSE, warned |-> FALSE]
        ELSE IF "latitude" \in df.columns /\ invalid_lats # {}
        THEN [ret |-> FALSE, warned |-> warned]
        ELSE IF "longitude" \in df.columns /\ invalid_lons # {}
        THEN [ret |-> FALSE, warned |-> warned]
        ELSE [ret |-> TRUE, warned |-> warned]

\* Bound of the validation model: rows of one DataFrame.
MaxVdRows == 2

\* Coordinates of a row: on the boundaries, just outside them, and inside.
VdCoords ==
    {<<9000, 18000>>, <<-9000, -18000>>, <<9001, 0>>, <<-9001, 0>>, <<0, 18001>>,
     <<0, -18001>>, <<4071, -7401>>}

VdRows ==
    {[valid_time_utc |-> 12, run_time_utc |-> 0, latitude |-> c[1], longitude |-> c[2],
      variable |-> "temperature_2m", value |-> 155, source_s3 |-> NoUrl] : c \in VdCoords}

\* The DataFrames validate_dataframe is applied to: all columns or one
\* missing, the expected dtypes or one numeric column of another dtype, and
\* any null cells in the latitude and value columns.
VdColumnSets == {required_columns, required_columns \ {"value"}, required_columns \ {"longitude"}}
VdDtypes ==
    {expected_types, [expected_types EXCEPT !["value"] = "int64"],
     [expected_types EXCEPT !["latitude"] = "float32"]}
VdFrames(n) ==
    {DataFrame(columns, dtypes, nulls, rows) :
        columns \in VdColumnSets, dtypes \in VdDtypes,
        nulls \in SUBSET ((1..n) \X {"latitude", "value"}),
        rows \in SeqsUpTo(VdRows, n)}

\* One call of validate_dataframe.
Validate ==
    /\ ~vd_out.called
    /\ LET out == validate_dataframe(vd_df)
       IN  vd_out' = [called |-> TRUE, ret |-> out.ret, warned |-> out.warned]
    /\ UNCHANGED vd_df
    /\ UNCHANGED <<storeVars, dlVars, parseVars, mainVars, locVars, tfVars, hpVars>>
    /\ UNCHANGED <<cbVars, catVars, pfVars>>

\* Alphabetical order of the allowed variable names.
VariableOrder ==
    <<"dewpoint_2m", "relative_humidity_2m", "surface_pressure", "surface_roughness",
      "temperature_2m", "u_component_wind_10m", "u_component_wind_80m",
      "v_component_wind_10m", "v_component_wind_80m",
      "visible_beam_downward_solar_flux", "visible_diffuse_downward_solar_flux">>

VariableRank(name) == CHOOSE k \in 1..Len(VariableOrder) : VariableOrder[k] = name

\* The sort key of combine_forecast_data, compared lexicographically.
SortKeyLess(a, b) ==
    \/ a.valid_time_utc < b.valid_time_utc
    \/ /\ a.valid_time_utc = b.valid_time_utc
       /\ \/ a.latitude < b.latitude
          \/ /\ a.latitude = b.latitude
             /\ \/ a.longitude < b.longitude
                \/ /\ a.longitude = b.longitude
                   /\ VariableRank(a.variable) < VariableRank(b.variable)

RECURSIVE InsertSorted(_, _)
\* r placed after every row of the sorted rows that is not greater than it.
InsertSorted(sorted, r) ==
    IF sorted = <<>> THEN <<r>>
    ELSE IF SortKeyLess(r, Head(sorted)) THEN <<r>> \o sorted
    ELSE <<Head(sorted)>> \o InsertSorted(Tail(sorted), r)

\* A sort that leaves the rows as they are.
NoSort(rows) == rows

RECURSIVE SortValues(_)
\* sort_values([...]) of the four key columns, rows of equal key in their order.
SortValues(rows) ==
    IF rows = <<>> THEN <<>>
    ELSE InsertSorted(SortValues(SubSeq(rows, 1, Len(rows) - 1)), rows[Len(rows)])

\* A combine that keeps the last DataFrame only.
CombineLast(dataframes) ==
    IF dataframes = <<>> THEN <<>> ELSE dataframes[Len(dataframes)]

\* combine_forecast_data: concat of the non-empty DataFrames, then the sort.
combine_forecast_data(dataframes) ==
    LET non_empty_dfs == SelectSeq(dataframes, LAMBDA df : df # <<>>)
    IN  IF non_empty_dfs = <<>> THEN <<>> ELSE SortValues(Flatten(non_empty_dfs))

\* Bounds of the combine model.
MaxCbRows    == 3     \* rows of all the DataFrames together
MaxCbBatches == 2     \* DataFrames in the list

\* Rows of the DataFrames combined: the first two agree on the four sort
\* columns and differ in value; each of the others differs from the first in
\* one sort column.
CbRow(valid_time_utc, latitude, longitude, variable, value) ==
    [valid_time_utc |-> valid_time_utc, run_time_utc |-> 0, latitude |-> latitude,
     longitude |-> longitude, variable |-> variable, value |-> value, source_s3 |-> NoUrl]

CbRows ==
    {CbRow(0, 0, 0, "temperature_2m", 2880), CbRow(0, 0, 0, "temperature_2m", 2950),
     CbRow(0, 0, 0, "u_component_wind_80m", 70), CbRow(0, 0, 100, "temperature_2m", 2880),
     CbRow(0, 100, 0, "temperature_2m", 2880), CbRow(1, 0, 0, "temperature_2m", 2880)}

RECURSIVE Splits(_, _)
\* Every list of m DataFrames, empty ones included, whose rows are these rows
\* in this order.
Splits(rows, m) ==
    IF m = 0 THEN (IF rows = <<>> THEN {<<>>} ELSE {})
    ELSE UNION {{<<SubSeq(rows, 1, k)>> \o rest :
                    rest \in Splits(SubSeq(rows, k + 1, Len(rows)), m - 1)} :
                k \in 0..Len(rows)}

\* The lists of at most m DataFrames with at most n rows together.
CbInputs(n, m) == UNION {Splits(rows, k) : rows \in SeqsUpTo(CbRows, n), k \in 0..m}

\* One call of combine_forecast_data.
Combine ==
    /\ ~cb_out.called
    /\ cb_out' = [called |-> TRUE, df |-> combine_forecast_data(cb_in)]
    /\ UNCHANGED cb_in
    /\ UNCHANGED <<storeVars, dlVars, parseVars, mainVars, locVars, tfVars, vdVars, hpVars>>
    /\ UNCHANGED <<catVars, pfVars>>

(***************************************************************************)
(* cli.py                                                                  *)
(***************************************************************************)

\* A range check that accepts every pair of numbers.
AnyLatLon(lat, lon) == TRUE

\* validate_lat_lon, in hundredths of a degree.
validate_lat_lon(lat, lon) == -9000 <= lat /\ lat <= 9000 /\ -18000 <= lon /\ lon <= 18000

\* One line of a points file after line.strip(): blank, a comment (it starts
\* with '#'), or data; parts are the pieces of line.split(',').  A piece is
\* a text that is the number v or is no number, followed or not by a '#'
\* comment.
PointsLine(kind, parts) == [kind |-> kind, parts |-> parts]
Part(number, v) == [number |-> number, v |-> v, comment |-> FALSE]

\* The piece followed by a comment, as in "-74.0060  # New York".
WithComment(part) == [part EXCEPT !.comment = TRUE]

\* float(part.strip()) returns: the whole piece is the text of a number.
FloatAccepts(part) == part.number /\ ~part.comment

\* "lat,lon"
LatLonLine(lat, lon) == PointsLine("data", <<Part(TRUE, lat), Part(TRUE, lon)>>)

\* The ValueError raised for line line_num.
LineError(line_num) == [raised |-> "ValueError", line_num |-> line_num, ret |-> <<>>]

RECURSIVE ReadLines(_, _, _)
\* The for loop of read_points_file from line line_num on, and the check that
\* follows it (its error names no line).
ReadLines(lines, line_num, pts) ==
    IF line_num > Len(lines)
    THEN IF pts = <<>> THEN LineError(0)
         ELSE [raised |-> None, line_num |-> 0, ret |-> pts]
    ELSE LET line == lines[line_num]
         IN IF line.kind \in {"blank", "comment"} THEN ReadLines(lines, line_num + 1, pts)
            ELSE IF Len(line.parts) # 2 THEN LineError(line_num)
            ELSE IF ~FloatAccepts(line.parts[1]) \/ ~FloatAccepts(line.parts[2])
            THEN LineError(line_num)
            ELSE IF ~validate_lat_lon(line.parts[1].v, line.parts[2].v)
            THEN LineError(line_num)
            ELSE ReadLines(lines, line_num + 1,
                           Append(pts, <<line.parts[1].v, line.parts[2].v>>))

\* read_points_file, for a file that exists.
read_points_file(lines) == ReadLines(lines, 1, <<>>)

\* Bound of the points file model: lines of one file.
MaxLines == 3

\* Lines of a points file: a blank one, a full-line comment, coordinates
\* inside the ranges and on their boundaries, a latitude and a longitude out
\* of range, "invalid,format", one field, three fields, and coordinates
\* followed by a comment.
PfLines ==
    {PointsLine("blank", <<>>), PointsLine("comment", <<>>),
     LatLonLine(4071, -7401), LatLonLine(9000, -18000),
     LatLonLine(9100, 0), LatLonLine(0, 18001),
     PointsLine("data", <<Part(FALSE, 0), Part(FALSE, 0)>>),
     PointsLine("data", <<Part(TRUE, 4071)>>),
     PointsLine("data", <<Part(TRUE, 4071), Part(TRUE, -7401), Part(TRUE, 0)>>),
     PointsLine("data", <<Part(TRUE, 3405), WithComment(Part(TRUE, -11824))>>)}

\* One call of read_points_file.
ReadPoints ==
    /\ ~pf_out.called
    /\ LET out == read_points_file(pf_in)
       IN  pf_out' = [called |-> TRUE, raised |-> out.raised, line_num |-> out.line_num,
                      ret |-> out.ret]
    /\ UNCHANGED pf_in
    /\ UNCHANGED <<storeVars, dlVars, parseVars, mainVars, locVars, tfVars, vdVars, hpVars>>
    /\ UNCHANGED <<cbVars, catVars>>

\* The points files of the model's command lines: one "lat,lon" line per
\* target point, a file with a line float() refuses ("abc,def") after a good
\* one, and a file with a latitude of 95 degrees.
MainPointsFiles ==
    {[i \in 1..Len(pts) |-> LatLonLine(pts[i][1], pts[i][2])] : pts \in PointLists}
      \cup {<<LatLonLine(0, 0), PointsLine("data", <<Part(FALSE, 0), Part(FALSE, 0)>>)>>,
             <<LatLonLine(9500, 0)>>}

\* A validate_arguments that accepts every command line.
ValidateArgumentsAccepts(a) == None

\* validate_variables: ValueError when some name is not allowed.
validate_variables(variables) ==
    IF \E i \in 1..Len(variables) : variables[i] \notin get_allowed_variables
    THEN "ValueError" ELSE None

\* build_variable_configs: one entry per variable, keyed by its GRIB name.
build_variable_configs(variables) ==
    IF \E i \in 1..Len(variables) : get_grib_variable_name(variables[i]).raised # None
    THEN [raised |-> "ValueError", ret |-> <<>>]
    ELSE [raised |-> None, ret |-> [i \in 1..Len(variables) |-> CatalogEntry(variables[i])]]

\* The value of --variables: None when the option is not given, otherwise
\* the string as its pieces between commas ("" is the one piece "", " " a
\* string of white space).
\* "if args.variables": None and the empty string are false.
IsGiven(variables) == variables # None /\ variables # <<"">>

\* var.strip() of one piece.
Strip(piece) == IF piece = " " THEN "" ELSE piece

\* [var.strip() for var in args.variables.split(',')]
SplitNames(variables) == [i \in 1..Len(variables) |-> Strip(variables[i])]

\* "not args.variables.strip()": the whole string is white space.
IsBlank(variables) == variables = <<" ">>

\* validate_arguments, for a points file that exists.
validate_arguments(a) ==
    IF parse_run_date(a.run_date).raised # None THEN "ValueError"
    ELSE IF a.num_hours < 1 \/ a.num_hours > LastForecastHour THEN "ValueError"
    ELSE IF ~IsGiven(a.variables) THEN None
    ELSE IF IsBlank(a.variables) THEN "ValueError"
    ELSE validate_variables(SplitNames(a.variables))

\* The variables main goes on with: those of --variables, or every allowed
\* variable when the option is not given or empty (list(set) has no fixed
\* order; the model takes the names in string order).
MainVariables(a) ==
    IF ~IsGiven(a.variables) THEN VariableOrder ELSE SplitNames(a.variables)

\* Command lines of the model.
VariableArgs ==
    {<<"temperature_2m">>, <<"temperature_2m", "u_component_wind_80m">>,
     <<"not_a_variable">>, <<"">>, <<" ">>}

MainArgs ==
    [run_date : {GoodDate, BadDate}, variables : VariableArgs,
     num_hours : 0..MaxHours, dry_run : BOOLEAN, base_path : {DefaultBasePath},
     points_file : MainPointsFiles]

\* A lattice outside the valid coordinate range.
FarLats == <<<<9100, 9100>>, <<9100, 9100>>>>

\* What the remote store may serve for one forecast hour.
HourFiles ==
    {NoFile,
     [openable |-> TRUE, messages |-> <<>>],
     [openable |-> TRUE,
      messages |-> <<Message("2 metre temperature", 2, "heightAboveGround", TRUE, 2880)>>],
     [openable |-> TRUE,
      messages |-> <<[Message("2 metre temperature", 2, "heightAboveGround", TRUE, 2880)
                        EXCEPT !.lats = FarLats]>>]}

\* The file of forecast hour h: its messages are valid h hours after the run.
FileForHour(grib, h) ==
    [grib EXCEPT !.messages = [i \in 1..Len(grib.messages) |->
                                  [grib.messages[i] EXCEPT !.validDate = h]]]

\* A per-hour loop that lets the exception go.
HourExceptReraises(exc) == "raise"

\* The except clause of the per-hour try block of main: log and "continue".
HourExcept(exc) == "continue"

\* Everything one iteration of the per-hour loop does before its except
\* clause: process_forecast_hour, transform, validate.  "ok" carries the
\* DataFrame appended to all_dataframes.
ProcessHour(files, a, configs, target_points, h, outcome, grib) ==
    LET dl     == download_grib(files, a.run_date, h, a.base_path, outcome)
        source == build_s3_url(a.run_date, h, a.base_path)
        parsed == parse_grib_file(FileForHour(grib, h), configs, target_points)
        long   == transform_to_long_format(parsed.ret, source)
    IN  IF dl.raised # None
        THEN [cache |-> dl.cache, fetched |-> dl.fetched, end |-> dl.raised, df |-> <<>>]
        ELSE IF parsed.raised # None
        THEN [cache |-> dl.cache, fetched |-> dl.fetched, end |-> parsed.raised, df |-> <<>>]
        ELSE IF parsed.ret = <<>>
        THEN [cache |-> dl.cache, fetched |-> dl.fetched, end |-> "no_variables", df |-> <<>>]
        ELSE IF long.raised # None
        THEN [cache |-> dl.cache, fetched |-> dl.fetched, end |-> long.raised, df |-> <<>>]
        ELSE IF long.df = <<>>
        THEN [cache |-> dl.cache, fetched |-> dl.fetched, end |-> "no_data", df |-> <<>>]
        ELSE IF ~validate_dataframe(DataFrameOf(long.df)).ret
        THEN [cache |-> dl.cache, fetched |-> dl.fetched, end |-> "validation_failed",
              df |-> <<>>]
        ELSE [cache |-> dl.cache, fetched |-> dl.fetched, end |-> "ok", df |-> long.df]

\* The command line of a one-hour run for the given variables.
HourArgs(variables) ==
    [run_date |-> GoodDate, variables |-> variables, num_hours |-> 1, dry_run |-> FALSE,
     base_path |-> DefaultBasePath, points_file |-> <<>>]

\* What one iteration of the per-hour loop is given: the variables of the
\* command line, the points, what the download does and the file served.
HourInputs(files) ==
    [variables : {<<"temperature_2m">>, <<"u_component_wind_80m">>,
                  <<"temperature_2m", "u_component_wind_80m">>},
     points : PointLists, outcome : DlOutcomes, grib : files]

\* The first iteration of the per-hour loop, on an empty cache.
RunHour ==
    /\ ~hp_out.called
    /\ LET step == ProcessHour([f \in CacheFiles |-> Absent], HourArgs(hp_in.variables),
                               build_variable_configs(hp_in.variables).ret, hp_in.points,
                               0, hp_in.outcome, hp_in.grib)
       IN  hp_out' = [called |-> TRUE, end |-> step.end, df |-> step.df]
    /\ UNCHANGED hp_in
    /\ UNCHANGED <<storeVars, dlVars, parseVars, mainVars, locVars, tfVars, vdVars>>
    /\ UNCHANGED <<cbVars, catVars, pfVars>>

HourRaised(end) == end \notin {"ok", "no_variables", "no_data", "validation_failed"}

\* main up to the per-hour loop: validate_arguments, build_variable_configs,
\* read_points_file, HrrrDatabase(args.db_path).  Any exception ends the run
\* in sys.exit(1).
MainStart ==
    /\ mpc = "start"
    /\ \E a \in MainArgs, connects \in BOOLEAN :
          LET built == build_variable_configs(MainVariables(a))
              read  == read_points_file(a.points_file)
          IN  /\ args' = a
              /\ IF validate_arguments(a) # None \/ built.raised # None \/ read.raised # None
                 THEN /\ mpc' = "done"
                      /\ exit_code' = "1"
                      /\ UNCHANGED <<variable_configs, points, db_conn>>
                 ELSE /\ variable_configs' = built.ret
                      /\ points' = read.ret
                      /\ IF connects
                         THEN mpc' = "loop" /\ db_conn' = "open" /\ exit_code' = exit_code
                         ELSE mpc' = "done" /\ db_conn' = "none" /\ exit_code' = "1"
    /\ UNCHANGED <<hour, attempted, hour_outcomes, all_dataframes>>
    /\ UNCHANGED <<storeVars, dlVars, parseVars, pureVars>>

\* One iteration of "for hour in range(args.num_hours)".
MainHour ==
    /\ mpc = "loop"
    /\ hour < args.num_hours
    /\ \E outcome \in DlOutcomes, grib \in HourFiles :
          LET step == ProcessHour(cache, args, variable_configs, points, hour, outcome, grib)
          IN  /\ cache' = step.cache
              /\ fetches' = IF step.fetched THEN fetches + 1 ELSE fetches
              /\ attempted' = Append(attempted, hour)
              /\ hour_outcomes' = Append(hour_outcomes, step.end)
              /\ all_dataframes' = IF step.end = "ok" THEN Append(all_dataframes, step.df)
                                   ELSE all_dataframes
              /\ IF HourRaised(step.end) /\ HourExcept(step.end) # "continue"
                 THEN \* the exception leaves the loop: finally db.close(), sys.exit(1)
                      /\ mpc' = "done"
                      /\ db_conn' = "closed"
                      /\ exit_code' = "1"
                      /\ hour' = hour
                 ELSE /\ hour' = hour + 1
                      /\ UNCHANGED <<mpc, db_conn, exit_code>>
    /\ UNCHANGED <<args, variable_configs, points, dl_last>>
    /\ UNCHANGED <<storeVars, parseVars, pureVars>>

\* A run that inserts whether or not --dry-run is given.
InsertsAlways(a) == TRUE

\* "if not args.dry_run": the combined DataFrame is inserted.
InsertsIntoStore(a) == ~a.dry_run

\* main after the loop: combine, insert unless --dry-run, finally db.close().
MainFinish ==
    /\ mpc = "loop"
    /\ hour >= args.num_hours
    /\ \E fault \in BOOLEAN :
          LET combined_df == combine_forecast_data(all_dataframes)
              out == insert_forecast_data(table, table_exists, combined_df, fault)
          IN  IF all_dataframes # <<>> /\ InsertsIntoStore(args)
              THEN /\ DbCall("insert", combined_df, out)
                   /\ exit_code' = IF out.raised # None THEN "1" ELSE "0"
              ELSE /\ UNCHANGED storeVars
                   /\ exit_code' = "0"
    /\ mpc' = "done"
    /\ db_conn' = "closed"
    /\ UNCHANGED <<args, variable_configs, points, hour, attempted, hour_outcomes,
                   all_dataframes>>
    /\ UNCHANGED <<dlVars, parseVars, pureVars>>

(***************************************************************************)
(* Initial states and specifications                                       *)
(***************************************************************************)

StoreInit ==
    /\ table = <<>>
    /\ table_exists = FALSE
    /\ db_log = <<>>

DlInit ==
    /\ cache = [f \in CacheFiles |-> Absent]
    /\ fetches = 0
    /\ dl_last = NoCall

ParseInit ==
    /\ ppc = "idle"
    /\ handles = 0
    /\ pfile = NoFile
    /\ pconfigs = <<>>
    /\ ppoints = <<>>
    /\ pidx = 1
    /\ results = <<>>
    /\ poutcome = [how |-> "none", why |-> None]
    /\ pcalls = 0

MainInit ==
    /\ mpc = "start"
    /\ args = [run_date |-> GoodDate, variables |-> <<>>, num_hours |-> 0,
               dry_run |-> FALSE, base_path |-> NoBase, points_file |-> <<>>]
    /\ variable_configs = <<>>
    /\ points = <<>>
    /\ db_conn = "none"
    /\ hour = 0
    /\ attempted = <<>>
    /\ hour_outcomes = <<>>
    /\ all_dataframes = <<>>
    /\ exit_code = None

\* No call of find_nearest_grid_point is in progress.
LocIdle ==
    /\ loc_target = <<0, 0>>
    /\ loc_lattice = [lats |-> <<<<0>>>>, lons |-> <<<<0>>>>]
    /\ loc_nearest = <<1, 1>>

TfIdle ==
    /\ tf_parsed = <<>>
    /\ tf_source = NoUrl
    /\ tf_out = [called |-> TRUE, raised |-> None, df |-> <<>>]

VdIdle ==
    /\ vd_df = DataFrameOf(<<>>)
    /\ vd_out = [called |-> TRUE, ret |-> TRUE, warned |-> FALSE]

HpIdle ==
    /\ hp_in = [variables |-> <<>>, points |-> <<>>, outcome |-> "ok", grib |-> NoFile]
    /\ hp_out = [called |-> TRUE, end |-> "RuntimeError", df |-> <<>>]

CbIdle ==
    /\ cb_in = <<>>
    /\ cb_out = [called |-> TRUE, df |-> <<>>]

CatIdle ==
    /\ cat_in = <<>>
    /\ cat_out = [called |-> TRUE, lookups |-> <<>>,
                  mapped |-> map_variables_to_grib_names(<<>>)]

PfIdle ==
    /\ pf_in = <<>>
    /\ pf_out = [called |-> TRUE, raised |-> "ValueError", line_num |-> 0, ret |-> <<>>]

\* No call of the functions modelled one call at a time is in progress.
PureIdle == LocIdle /\ TfIdle /\ VdIdle /\ HpIdle /\ CbIdle /\ CatIdle /\ PfIdle

Init == StoreInit /\ DlInit /\ ParseInit /\ MainInit /\ PureIdle

\* The store adapter under any sequence of insert/upsert calls.
StoreNext == Insert \/ Upsert
StoreSpec == Init /\ [][StoreNext]_vars

\* download_grib called repeatedly on one cache directory.
DlNext == Download
DlSpec == Init /\ [][DlNext]_vars

\* One run of main.
Next == MainStart \/ MainHour \/ MainFinish
Spec == Init /\ [][Next]_vars

\* find_nearest_grid_point applied to any target and any lattice.
LocInit ==
    /\ StoreInit /\ DlInit /\ ParseInit /\ MainInit /\ TfIdle /\ VdIdle /\ HpIdle
    /\ CbIdle /\ CatIdle /\ PfIdle
    /\ loc_target \in LocTargets
    /\ loc_lattice \in Lattices(MaxRows, MaxCols)
    /\ loc_nearest = NotLocated
LocNext == Locate
LocSpec == LocInit /\ [][LocNext]_vars

\* transform_to_long_format applied to any parsed data.
TfInit ==
    /\ StoreInit /\ DlInit /\ ParseInit /\ MainInit /\ LocIdle /\ VdIdle /\ HpIdle
    /\ CbIdle /\ CatIdle /\ PfIdle
    /\ tf_parsed \in TfParsed(MaxExtractions)
    /\ tf_source \in TfSources
    /\ tf_out = [called |-> FALSE, raised |-> None, df |-> <<>>]
TfNext == Transform
TfSpec == TfInit /\ [][TfNext]_vars

\* validate_dataframe applied to any DataFrame.
VdInit ==
    /\ StoreInit /\ DlInit /\ ParseInit /\ MainInit /\ LocIdle /\ TfIdle /\ HpIdle
    /\ CbIdle /\ CatIdle /\ PfIdle
    /\ vd_df \in {df \in VdFrames(MaxVdRows) : \A cell \in df.nulls : cell[1] <= Len(df.rows)}
    /\ vd_out = [called |-> FALSE, ret |-> FALSE, warned |-> FALSE]
VdNext == Validate
VdSpec == VdInit /\ [][VdNext]_vars

\* One iteration of the per-hour loop of main, for any file served.
HourInit ==
    /\ StoreInit /\ DlInit /\ ParseInit /\ MainInit /\ LocIdle /\ TfIdle /\ VdIdle
    /\ CbIdle /\ CatIdle /\ PfIdle
    /\ hp_in \in HourInputs(GribFiles)
    /\ hp_out = [called |-> FALSE, end |-> None, df |-> <<>>]
HourNext == RunHour
HourSpec == HourInit /\ [][HourNext]_vars

\* The parsed data the flatten-and-combine model starts from: none, or one
\* var_data of one point.
CbParsed ==
    {<<>>,
     <<VarData(Message("2 metre temperature", 2, "heightAboveGround", TRUE, 2880),
               "temperature_2m", <<<<0, 0>>>>)>>}

\* transform_to_long_format and combine_forecast_data, each applied once to
\* any input.
CbInit ==
    /\ StoreInit /\ DlInit /\ ParseInit /\ MainInit /\ LocIdle /\ VdIdle /\ HpIdle
    /\ CatIdle /\ PfIdle
    /\ tf_parsed \in CbParsed
    /\ tf_source = build_s3_url(GoodDate, 0, DefaultBasePath)
    /\ tf_out = [called |-> FALSE, raised |-> None, df |-> <<>>]
    /\ cb_in \in CbInputs(MaxCbRows, MaxCbBatches)
    /\ cb_out = [called |-> FALSE, df |-> <<>>]
CbNext == Transform \/ Combine
CbSpec == CbInit /\ [][CbNext]_vars

\* The catalog looked up for any list of names.
CatInit ==
    /\ StoreInit /\ DlInit /\ ParseInit /\ MainInit /\ LocIdle /\ TfIdle /\ VdIdle /\ HpIdle
    /\ CbIdle /\ PfIdle
    /\ cat_in \in SeqsUpTo(CatNames, MaxCatNames)
    /\ cat_out = [called |-> FALSE, lookups |-> <<>>, mapped |-> [raised |-> None, ret |-> <<>>]]
CatNext == Lookup
CatSpec == CatInit /\ [][CatNext]_vars

\* read_points_file applied to any file.
PfInit ==
    /\ StoreInit /\ DlInit /\ ParseInit /\ MainInit /\ LocIdle /\ TfIdle /\ VdIdle /\ HpIdle
    /\ CbIdle /\ CatIdle
    /\ pf_in \in SeqsUpTo(PfLines, MaxLines)
    /\ pf_out = [called |-> FALSE, raised |-> None, line_num |-> 0, ret |-> <<>>]
PfNext == ReadPoints
PfSpec == PfInit /\ [][PfNext]_vars

\* parse_grib_file called repeatedly, one call after the other.
ParseNext == ParseStart \/ ParseVariable \/ ParseReturn \/ ParseInterrupt
ParseSpec == Init /\ [][ParseNext]_vars

(***************************************************************************)
(* The store adapter (StoreSpec)                                           *)
(***************************************************************************)

\* The dedup key of section 3: every column but value.
DedupKey(r) ==
    <<r.valid_time_utc, r.run_time_utc, r.latitude, r.longitude, r.variable, r.source_s3>>

DistinctKeys(df) == \A i, j \in 1..Len(df) : i # j => DedupKey(df[i]) # DedupKey(df[j])

\* C1: when the same records (distinct keys, none stored yet) are inserted
\* twice in a row, the first insert adds as many rows as the batch has and
\* the second adds none and returns 0.
C1_InsertTwiceAddsOnce ==
    \A k \in 1..(Len(db_log) - 1) :
        LET first == db_log[k]
            again == db_log[k + 1]
        IN  ( /\ first.op = "insert" /\ again.op = "insert"
              /\ first.raised = None /\ again.raised = None
              /\ first.df # <<>> /\ again.df = first.df
              /\ first.before = 0 /\ DistinctKeys(first.df) )
            => /\ first.after - first.before = Len(first.df)
               /\ again.after - again.before = 0
               /\ again.ret = 0

\* C2: no two rows of hrrr_forecasts agree on the six key columns.
C2_NoTwoRowsShareKey ==
    \A i, j \in 1..Len(table) : i # j => DedupKey(table[i]) # DedupKey(table[j])

\* The second batch is the first with the value of record n changed.
ValueChangedAt(first, second, n) ==
    /\ Len(second) = Len(first) /\ n \in 1..Len(first)
    /\ DedupKey(second[n]) = DedupKey(first[n]) /\ second[n].value # first[n].value
    /\ \A m \in 1..Len(first) : m # n => second[m] = first[m]

\* C26: when a batch of distinct keys is inserted into the empty store and
\* the same batch with the value of one record changed is then upserted, the
\* upsert returns the size of the batch and every stored row with the key of
\* that record has the new value.
C26_UpsertReplacesValue ==
    \A k \in 1..(Len(db_log) - 1) : \A n \in 1..Len(db_log[k].df) :
        LET first == db_log[k]
            again == db_log[k + 1]
        IN  ( /\ first.op = "insert" /\ again.op = "upsert"
              /\ first.raised = None /\ again.raised = None
              /\ first.before = 0 /\ DistinctKeys(first.df)
              /\ ValueChangedAt(first.df, again.df, n)
              /\ k + 1 = Len(db_log) )
            => /\ again.ret = Len(again.df)
               /\ \A row \in {table[m] : m \in 1..Len(table)} :
                     DedupKey(row) = DedupKey(again.df[n]) => row.value = again.df[n].value

(***************************************************************************)
(* The orchestrator (Spec)                                                 *)
(***************************************************************************)

\* C3: the hours handed to process_forecast_hour are 0, 1, 2, ... in this
\* order, each once, whatever the earlier hours ended with; a run that
\* reached the loop ends only after hour num_hours-1 was attempted.
C3_EveryHourAttempted ==
    /\ Len(attempted) = Len(hour_outcomes)
    /\ \A k \in 1..Len(attempted) : attempted[k] = k - 1
    /\ mpc = "loop" => Len(attempted) = hour
    /\ (mpc = "done" /\ db_conn = "closed") => Len(attempted) = args.num_hours

\* A finished run of at least two hours whose first hour raised.
C3_Witness ==
    /\ mpc = "done" /\ db_conn = "closed"
    /\ args.num_hours >= 2
    /\ HourRaised(hour_outcomes[1])
    /\ Len(attempted) = args.num_hours

\* The rows of a sequence of rows, as a set.
RowSet(rows) == {rows[n] : n \in 1..Len(rows)}

\* The rows of all the batches appended to all_dataframes.
ValidatedRows == UNION {RowSet(all_dataframes[n]) : n \in 1..Len(all_dataframes)}

\* A row with a latitude outside [-90, 90] or a longitude outside [-180, 180].
OutOfRange(row) ==
    \/ row.latitude < -9000 \/ row.latitude > 9000
    \/ row.longitude < -18000 \/ row.longitude > 18000

\* C16: no record of a batch that has an out-of-range latitude or longitude
\* is ever kept for insertion or in the store; an hour whose batch failed
\* validation contributes no row (the rows of forecast hour h are those valid
\* at hour h) and the loop goes on to the next hour; and when the run
\* completes with the insert done, the rows of every hour that passed
\* validation are in the store.
C16_RejectedHourNotInserted ==
    /\ \A row \in RowSet(table) \cup ValidatedRows : ~OutOfRange(row)
    /\ \A k \in 1..Len(hour_outcomes) :
          hour_outcomes[k] = "validation_failed" =>
              /\ \A row \in RowSet(table) \cup ValidatedRows : row.valid_time_utc # k - 1
              /\ mpc = "loop" => hour >= k
              /\ (mpc = "done" /\ db_conn = "closed") => Len(attempted) = args.num_hours
    /\ (mpc = "done" /\ exit_code = "0" /\ ~args.dry_run) =>
          /\ ValidatedRows \subseteq RowSet(table)
          /\ \A k \in 1..Len(hour_outcomes) :
                hour_outcomes[k] = "ok" =>
                    \E row \in RowSet(table) : row.valid_time_utc = k - 1

\* A completed run whose first hour failed validation and whose second hour
\* was inserted.
C16_Witness ==
    /\ mpc = "done" /\ exit_code = "0" /\ ~args.dry_run
    /\ Len(hour_outcomes) >= 2
    /\ hour_outcomes[1] = "validation_failed" /\ hour_outcomes[2] = "ok"
    /\ \E row \in RowSet(table) : row.valid_time_utc = 1

\* --variables is given and one of its names is not an allowed variable.
UnknownVariable(variables) ==
    /\ variables # None /\ variables # <<"">>
    /\ \E i \in 1..Len(variables) :
          (IF variables[i] = " " THEN "" ELSE variables[i]) \notin get_allowed_variables

\* The command line and the points file are valid.
ConfigValid ==
    /\ parse_run_date(args.run_date).raised = None
    /\ args.num_hours >= 1
    /\ ~UnknownVariable(args.variables)
    /\ read_points_file(args.points_file).raised = None

\* C17: a call of insert_forecast_data whose write failed raised to its
\* caller, and the run then ended with exit status 1; so did a run whose
\* connection to the store could not be opened.
C17_StoreFailureIsFatal ==
    /\ \A k \in 1..Len(db_log) : db_log[k].failed => db_log[k].raised # None
    /\ mpc = "done" =>
          /\ (\E k \in 1..Len(db_log) : db_log[k].failed) => exit_code = "1"
          /\ (ConfigValid /\ db_conn = "none") => exit_code = "1"

\* A run that attempted its hours, whose insert failed, ended with status 1.
C17_Witness ==
    /\ mpc = "done" /\ exit_code = "1"
    /\ Len(attempted) >= 1
    /\ Len(db_log) = 1 /\ db_log[1].failed /\ db_log[1].raised = "RuntimeError"
    /\ table = <<>>

\* An unknown variable name, a run date that is no date, or a points file
\* with a line that is no coordinate pair or is out of range.
ConfigError ==
    \/ UnknownVariable(args.variables)
    \/ parse_run_date(args.run_date).raised # None
    \/ read_points_file(args.points_file).raised # None

\* C18: a run with a configuration error ends with exit status 1 with no
\* forecast hour attempted, no request issued, no file in the cache, no
\* store connection opened and no call made on the store.
C18_ConfigErrorBeforeProcessing ==
    (mpc # "start" /\ ConfigError) =>
        /\ mpc = "done" /\ exit_code = "1"
        /\ attempted = <<>> /\ hour_outcomes = <<>> /\ all_dataframes = <<>>
        /\ fetches = 0
        /\ \A f \in CacheFiles : cache[f] = Absent
        /\ db_conn = "none"
        /\ db_log = <<>> /\ table = <<>>

\* A run that was stopped by its points file alone.
C18_Witness ==
    /\ mpc = "done" /\ exit_code = "1"
    /\ validate_arguments(args) = None
    /\ read_points_file(args.points_file).raised # None
    /\ db_conn = "none" /\ attempted = <<>>

\* C25: a run whose --variables is the empty string ends in validate_arguments
\* with exit status 1, before any variable configuration is built.
C25_EmptyVariablesRejected ==
    (mpc # "start" /\ args.variables = <<"">>) =>
        /\ mpc = "done" /\ exit_code = "1"
        /\ variable_configs = <<>> /\ attempted = <<>> /\ db_conn = "none"

(***************************************************************************)
(* download_grib (DlSpec)                                                  *)
(***************************************************************************)

DlArgsValid ==
    /\ dl_last.base_path # None
    /\ local_filename(dl_last.run_date, dl_last.forecast_hour) \in CacheFiles

\* C4: after a call of download_grib that raised, there is no file at the
\* cache location of its run date and forecast hour.
C4_NoFileAfterFailure ==
    (DlArgsValid /\ dl_last.raised # None)
        => ~Exists(cache, local_filename(dl_last.run_date, dl_last.forecast_hour))

\* C5: a call of download_grib that finds a local copy issues no request,
\* leaves every file of the cache as it was and returns the local path of
\* its run date and forecast hour.
C5_CacheHitFetchesNothing ==
    (DlArgsValid /\ dl_last.existed)
        => /\ ~dl_last.fetched
           /\ fetches = dl_last.fetches_before
           /\ cache[local_filename(dl_last.run_date, dl_last.forecast_hour)] = dl_last.before
           /\ dl_last.others_kept
           /\ dl_last.raised = None
           /\ dl_last.ret = local_filename(dl_last.run_date, dl_last.forecast_hour)

\* A second call for a file an earlier call downloaded completely.
C5_Witness ==
    /\ DlArgsValid /\ dl_last.existed
    /\ dl_last.before.state = "complete"
    /\ fetches > 0 /\ ~dl_last.fetched

\* C30: the file a call of download_grib returns was fetched from the URL
\* build_s3_url gives for the run date, the forecast hour and the base path
\* of that call, whatever calls were made on the cache directory before.
C30_FileIsOfRequestedUrl ==
    (DlArgsValid /\ dl_last.raised = None) =>
        LET fetched_from == cache[dl_last.ret].url
        IN  /\ fetched_from.base.rest = dl_last.base_path
            /\ fetched_from.date = DateDigits(dl_last.run_date)
            /\ fetched_from.fxx = dl_last.forecast_hour

(***************************************************************************)
(* parse_grib_file (ParseSpec)                                             *)
(***************************************************************************)

\* The loop is over and "return results" is next.
AtReturn == ppc = "loop" /\ pidx > Len(pconfigs)

ResultNames == {results[k].variable_name : k \in 1..Len(results)}

\* The messages select() yields for entry i of the call in progress.
Selected(i) == SelectFrom(pfile.messages, pconfigs[i].grib_name, pconfigs[i].level_config)

\* C6: at most one pygrib handle is open at any time, and none is open
\* between two calls of parse_grib_file or after the last, however the call
\* ended.
C6_HandleClosedOnEveryExit ==
    /\ handles \in {0, 1}
    /\ ppc = "idle" => handles = 0

\* A second call that has ended, after a first one that had opened the file.
C6_Witness ==
    /\ ppc = "idle" /\ pcalls > 1 /\ handles = 0
    /\ poutcome.how \in {"returned", "KeyboardInterrupt"}

\* C7: an extraction that was asked for a variable name outside the allowed
\* set does not return a result list.
C7_UnknownVariableRaises ==
    AtReturn => \A i \in 1..Len(pconfigs) : pconfigs[i].argument_name \in get_allowed_variables

\* C8: an extraction in which reading the selected message of some variable
\* failed does not return a result list.
C8_DecodeErrorIsFatal ==
    AtReturn => \A i \in 1..Len(pconfigs) : Selected(i) # <<>> => Selected(i)[1].readable

C10_Level80Only ==
    \A k \in 1..Len(results) :
        results[k].variable_name = "u_component_wind_80m"
            => /\ results[k].level = Level80
               /\ \E n \in 1..Len(pfile.messages) :
                     /\ pfile.messages[n].name = "U component of wind"
                     /\ pfile.messages[n].level = Level80
                     /\ results[k] = VarData(pfile.messages[n], "u_component_wind_80m", ppoints)

\* The level-10 message comes first in the file and the level-80 one is used.
C10_Witness ==
    /\ AtReturn /\ Len(pfile.messages) = 2
    /\ pfile.messages[1].name = "U component of wind" /\ pfile.messages[1].level = 10
    /\ pfile.messages[2].level = Level80
    /\ "u_component_wind_80m" \in ResultNames

(***************************************************************************)
(* find_nearest_grid_point (LocSpec)                                       *)
(***************************************************************************)

\* The squared distance from the target of the call to cell <<r, c>>.
CellDist2(r, c) ==
    Dist2(loc_target[1], loc_target[2], loc_lattice.lats[r][c], loc_lattice.lons[r][c])

LatticeCells ==
    {<<r, c>> : r \in 1..Len(loc_lattice.lats), c \in 1..Len(loc_lattice.lats[1])}

\* Row-major scan order.
ScansBefore(a, b) == a[1] < b[1] \/ (a[1] = b[1] /\ a[2] < b[2])

\* C12: the cell find_nearest_grid_point returns has the least squared
\* distance to the target over all cells of the lattice, and is the first
\* in row-major order of the cells that have it.
C12_NearestCellRowMajor ==
    loc_nearest # NotLocated =>
        /\ loc_nearest \in LatticeCells
        /\ \A cell \in LatticeCells :
              /\ CellDist2(loc_nearest[1], loc_nearest[2]) <= CellDist2(cell[1], cell[2])
              /\ CellDist2(cell[1], cell[2]) = CellDist2(loc_nearest[1], loc_nearest[2])
                    => ~ScansBefore(cell, loc_nearest)

\* The cells of a message's lattice, as <<lat, lon>>.
LatticePoints(message) ==
    {<<message.lats[r][c], message.lons[r][c]>> :
        r \in 1..Len(message.lats), c \in 1..Len(message.lats[1])}

\* The message of the file that entry k of results was selected from.
SourceOf(k) ==
    LET i == CHOOSE i \in 1..Len(pconfigs) :
                 pconfigs[i].argument_name = results[k].variable_name
    IN  Selected(i)[1]

\* C13: for every observation in the results, the grid latitude, the grid
\* longitude and the value are those of the selected message at the one cell
\* the grid locator returns for the observation's target point, and the grid
\* coordinates are a cell of that message's lattice.
C13_GridCoordsFromLattice ==
    \A k \in 1..Len(results) :
        /\ Len(results[k].point_data) = Len(ppoints)
        /\ \A j \in 1..Len(results[k].point_data) :
              LET obs == results[k].point_data[j]
                  msg == SourceOf(k)
                  rc  == find_nearest_grid_point(ppoints[j][1], ppoints[j][2],
                                                 msg.lats, msg.lons)
              IN  /\ obs.target_lat = ppoints[j][1] /\ obs.target_lon = ppoints[j][2]
                  /\ obs.grid_lat = msg.lats[rc[1]][rc[2]]
                  /\ obs.grid_lon = msg.lons[rc[1]][rc[2]]
                  /\ obs.value = msg.values[rc[1]][rc[2]]
                  /\ <<obs.grid_lat, obs.grid_lon>> \in LatticePoints(msg)

\* An observation whose target point is no cell of the lattice.
C13_Witness ==
    /\ AtReturn
    /\ \E k \in 1..Len(results) : \E j \in 1..Len(results[k].point_data) :
          LET obs == results[k].point_data[j]
          IN  /\ <<obs.target_lat, obs.target_lon>> \notin LatticePoints(SourceOf(k))
              /\ <<obs.grid_lat, obs.grid_lon>> \in LatticePoints(SourceOf(k))

\* The entries of results that carry the argument name of entry i.
EntriesOf(i) == {k \in 1..Len(results) : results[k].variable_name = pconfigs[i].argument_name}

C14_FlattenOneExtraction ==
    (tf_out.called /\ Len(tf_parsed) = 1) =>
        LET var_data == tf_parsed[1]
        IN  /\ tf_out.raised = None
            /\ Len(tf_out.df) = Len(var_data.point_data)
            /\ \A j \in 1..Len(tf_out.df) :
                  /\ tf_out.df[j].variable = var_data.variable_name
                  /\ tf_out.df[j].latitude = var_data.point_data[j].grid_lat
                  /\ tf_out.df[j].longitude = var_data.point_data[j].grid_lon
                  /\ tf_out.df[j].value = var_data.point_data[j].value
                  /\ tf_out.df[j].valid_time_utc = var_data.valid_time
                  /\ tf_out.df[j].run_time_utc = var_data.run_time
                  /\ tf_out.df[j].source_s3 = tf_source

(***************************************************************************)
(* validate_dataframe (VdSpec)                                             *)
(***************************************************************************)

\* The rows of the DataFrame validated whose cell in the column is not null.
NonNull(col) == {i \in 1..Len(vd_df.rows) : <<i, col>> \notin vd_df.nulls}

\* Some record has a latitude outside [-90, 90] or a longitude outside
\* [-180, 180].
SomeOutOfRange ==
    \/ /\ "latitude" \in vd_df.columns
       /\ \E i \in NonNull("latitude") :
             vd_df.rows[i].latitude < -9000 \/ vd_df.rows[i].latitude > 9000
    \/ /\ "longitude" \in vd_df.columns
       /\ \E i \in NonNull("longitude") :
             vd_df.rows[i].longitude < -18000 \/ vd_df.rows[i].longitude > 18000

\* All seven columns, the expected dtypes, no null cell.
WellFormed ==
    /\ vd_df.columns = required_columns
    /\ vd_df.dtypes = expected_types
    /\ vd_df.nulls = {}

\* C19: validate_dataframe returns False for a DataFrame with a latitude
\* outside [-90, 90] or a longitude outside [-180, 180], and True for a
\* well-formed DataFrame whose coordinates are all within these ranges, the
\* boundary values 90, -90, 180 and -180 included.
C19_RangeCheckInclusive ==
    vd_out.called =>
        /\ SomeOutOfRange => ~vd_out.ret
        /\ (WellFormed /\ ~SomeOutOfRange) => vd_out.ret

\* A well-formed DataFrame with rows at (90, 180) and (-90, -180), accepted.
C19_Witness ==
    /\ vd_out.called /\ vd_out.ret /\ WellFormed
    /\ \E i, j \in 1..Len(vd_df.rows) :
          /\ vd_df.rows[i].latitude = 9000 /\ vd_df.rows[i].longitude = 18000
          /\ vd_df.rows[j].latitude = -9000 /\ vd_df.rows[j].longitude = -18000

\* C20: validate_dataframe returns True for every DataFrame whose coordinates
\* are all in range, whatever columns are missing, cells null or dtypes
\* unexpected.
C20_NeverRejectsOnMissingOrType ==
    (vd_out.called /\ ~SomeOutOfRange) => vd_out.ret

(***************************************************************************)
(* One forecast hour: extract, flatten, validate (HourSpec)                *)
(***************************************************************************)

\* The message of the file served that select() yields first for variable i
\* of the hour's command line.
HourMessages(i) ==
    LET entry == CatalogEntry(hp_in.variables[i])
    IN  SelectFrom(hp_in.grib.messages, entry.grib_name, entry.level_config)

\* The file was downloaded and opened, and every requested variable has a
\* matching message, which was read.
HourAllMatched ==
    /\ hp_in.outcome = "ok" /\ hp_in.grib.openable
    /\ \A i \in 1..Len(hp_in.variables) :
          HourMessages(i) # <<>> /\ HourMessages(i)[1].readable

\* Cell rc of the message has the least squared distance to the point.
IsNearest(message, point, rc) ==
    \A r \in 1..Len(message.lats), c \in 1..Len(message.lats[1]) :
        Dist2(point[1], point[2], message.lats[rc[1]][rc[2]], message.lons[rc[1]][rc[2]])
            <= Dist2(point[1], point[2], message.lats[r][c], message.lons[r][c])

CountIn(row, rows) == Cardinality({i \in 1..Len(rows) : rows[i] = row})

\* The four sort columns of a row.
KeyOf(row) == <<row.valid_time_utc, row.latitude, row.longitude, VariableRank(row.variable)>>

\* Lexicographic order of two keys.
KeyBefore(a, b) ==
    \E n \in 1..Len(a) : a[n] < b[n] /\ \A m \in 1..(n - 1) : a[m] = b[m]

KeysOf(rows) == [i \in 1..Len(rows) |-> KeyOf(rows[i])]

\* The list of DataFrames in another order.
Reordered(dataframes, order) == [i \in 1..Len(dataframes) |-> dataframes[order[i]]]

Orders(n) == {order \in [1..n -> 1..n] : \A i, j \in 1..n : i # j => order[i] # order[j]}

\* C21: the rows combine_forecast_data returns are the rows of all the
\* DataFrames it was given, each as many times as it occurs in them; they are
\* in ascending order of (valid time, latitude, longitude, variable); and the
\* DataFrames given in any other order yield the same rows with the same
\* sequence of sort keys.
C21_CombineSortedPermutation ==
    cb_out.called =>
        /\ Len(cb_out.df) = Len(Flatten(cb_in))
        /\ \A row \in CbRows : CountIn(row, cb_out.df) = CountIn(row, Flatten(cb_in))
        /\ \A i \in 1..(Len(cb_out.df) - 1) :
              ~KeyBefore(KeyOf(cb_out.df[i + 1]), KeyOf(cb_out.df[i]))
        /\ \A order \in Orders(Len(cb_in)) :
              LET other == combine_forecast_data(Reordered(cb_in, order))
              IN  /\ KeysOf(other) = KeysOf(cb_out.df)
                  /\ \A row \in CbRows : CountIn(row, other) = CountIn(row, cb_out.df)

\* Two non-empty DataFrames whose concatenation is not in order, with two
\* rows that agree on the four sort columns.
C21_Witness ==
    /\ cb_out.called
    /\ Len(cb_in) = 2 /\ cb_in[1] # <<>> /\ cb_in[2] # <<>>
    /\ cb_out.df # Flatten(cb_in)
    /\ \E i, j \in 1..Len(cb_out.df) :
          i # j /\ KeyOf(cb_out.df[i]) = KeyOf(cb_out.df[j]) /\ cb_out.df[i] # cb_out.df[j]

(***************************************************************************)
(* The variable catalog (CatSpec)                                          *)
(***************************************************************************)

\* The eleven logical names of the catalog.
LogicalNames ==
    {"surface_pressure", "surface_roughness", "visible_beam_downward_solar_flux",
     "visible_diffuse_downward_solar_flux", "temperature_2m", "dewpoint_2m",
     "relative_humidity_2m", "u_component_wind_10m", "v_component_wind_10m",
     "u_component_wind_80m", "v_component_wind_80m"}

Wind80Names == {"u_component_wind_80m", "v_component_wind_80m"}

\* C22: the allowed set is these eleven names; the lookup of each of them
\* raises nothing and gives one GRIB field name, with an empty level
\* configuration except for the two 80m wind components, whose configuration
\* is level 80; the lookup of any other name raises ValueError, and so does
\* the mapping of a list that holds such a name.
C22_CatalogTotalOnAllowed ==
    /\ get_allowed_variables = LogicalNames
    /\ Cardinality(get_allowed_variables) = 11
    /\ cat_out.called =>
          /\ Len(cat_out.lookups) = Len(cat_in)
          /\ \A i \in 1..Len(cat_in) :
                LET found == cat_out.lookups[i]
                IN  IF cat_in[i] \in LogicalNames
                    THEN /\ found.raised = None
                         /\ found.grib_name # None
                         /\ found.grib_name = ALLOWED_VARIABLES[cat_in[i]]
                         /\ found.level_config =
                               IF cat_in[i] \in Wind80Names THEN {<<"level", 80>>} ELSE {}
                    ELSE /\ found.raised = "ValueError"
                         /\ cat_out.mapped.raised = "ValueError"
          /\ (\A i \in 1..Len(cat_in) : cat_in[i] \in LogicalNames) =>
                /\ cat_out.mapped.raised = None
                /\ Len(cat_out.mapped.ret) = Len(cat_in)

\* An 80m wind component and a name outside the catalog, looked up in one list.
C22_Witness ==
    /\ cat_out.called
    /\ \E i, j \in 1..Len(cat_in) :
          /\ cat_in[i] \in Wind80Names
          /\ cat_out.lookups[i].level_config = {<<"level", 80>>}
          /\ cat_in[j] = "not_a_variable"
          /\ cat_out.lookups[j].raised = "ValueError"

(***************************************************************************)
(* read_points_file (PfSpec)                                               *)
(***************************************************************************)

\* A blank line or a line starting with '#'.
Ignored(line) == line.kind \in {"blank", "comment"}

\* A line "latitude,longitude": two fields, each the text of a number.
IsLatLon(line) ==
    /\ line.kind = "data" /\ Len(line.parts) = 2
    /\ \A n \in 1..2 : line.parts[n].number /\ ~line.parts[n].comment

\* The two numbers are a latitude in [-90, 90] and a longitude in [-180, 180].
InRange(line) ==
    /\ -9000 <= line.parts[1].v /\ line.parts[1].v <= 9000
    /\ -18000 <= line.parts[2].v /\ line.parts[2].v <= 18000

\* The 1-based numbers of the lines of the file read that are neither
\* ignored nor a coordinate pair in range.
BadLines == {n \in 1..Len(pf_in) : ~Ignored(pf_in[n]) /\ ~(IsLatLon(pf_in[n]) /\ InRange(pf_in[n]))}

\* The pairs of the lines that are not ignored, in file order.
PairsOf(lines) ==
    LET kept == SelectSeq(lines, LAMBDA line : ~Ignored(line))
    IN  [n \in 1..Len(kept) |-> <<kept[n].parts[1].v, kept[n].parts[2].v>>]

IsLatLonWithComment(line) ==
    /\ line.kind = "data" /\ Len(line.parts) = 2
    /\ line.parts[1].number /\ ~line.parts[1].comment
    /\ line.parts[2].number

\* C24: read_points_file of a file whose lines are blank, '#' lines or
\* coordinate pairs in range, some followed by a '#' comment, returns the
\* pairs in file order, each as the two numbers before the comment.
C24_InlineCommentAccepted ==
    ( /\ pf_out.called
      /\ \A n \in 1..Len(pf_in) :
            Ignored(pf_in[n]) \/ (IsLatLonWithComment(pf_in[n]) /\ InRange(pf_in[n]))
      /\ \E n \in 1..Len(pf_in) : ~Ignored(pf_in[n]) )
    => /\ pf_out.raised = None
       /\ pf_out.ret = PairsOf(pf_in)

(***************************************************************************)
(* Empty inputs (CbSpec)                                                   *)
(***************************************************************************)

\* C27: transform_to_long_format of an empty parsed_data list raises nothing
\* and returns no row; combine_forecast_data of an empty list, or of a list
\* of empty DataFrames only, returns no row.
C27_EmptyInputsYieldEmpty ==
    /\ (tf_out.called /\ tf_parsed = <<>>) => (tf_out.raised = None /\ tf_out.df = <<>>)
    /\ (cb_out.called /\ \A n \in 1..Len(cb_in) : cb_in[n] = <<>>) => cb_out.df = <<>>

\* Both calls made: no parsed data, and a list of two empty DataFrames.
C27_Witness ==
    /\ tf_out.called /\ tf_parsed = <<>> /\ tf_out.df = <<>>
    /\ cb_out.called /\ Len(cb_in) = 2 /\ cb_in[1] = <<>> /\ cb_in[2] = <<>>
    /\ cb_out.df = <<>>

(***************************************************************************)
(* The insert of a run (Spec)                                              *)
(***************************************************************************)

\* The rows valid at forecast hour h, in their order.
RowsOfHour(rows, h) == SelectSeq(rows, LAMBDA row : row.valid_time_utc = h)

\* How many of the first k hours attempted ended with a validated batch.
OkAmong(k) == Cardinality({j \in 1..k : hour_outcomes[j] = "ok"})

\* C28: a run calls insert_forecast_data at most once and upsert never; the
\* call is made after the last forecast hour was attempted and only when
\* some hour gave a validated batch, which is never empty; the rows passed
\* are, for every hour that gave a validated batch, the rows of that batch,
\* and no row of any other hour.
C28_InsertOnceWithValidatedRows ==
    /\ Len(db_log) <= 1
    /\ \A n \in 1..Len(all_dataframes) : all_dataframes[n] # <<>>
    /\ db_log # <<>> =>
          LET passed == db_log[1].df
          IN  /\ db_log[1].op = "insert"
              /\ mpc = "done"
              /\ Len(attempted) = args.num_hours /\ Len(hour_outcomes) = args.num_hours
              /\ \E k \in 1..Len(hour_outcomes) : hour_outcomes[k] = "ok"
              /\ passed # <<>>
              /\ \A row \in RowSet(passed) : row.valid_time_utc \in 0..(args.num_hours - 1)
              /\ \A k \in 1..Len(hour_outcomes) :
                    IF hour_outcomes[k] = "ok"
                    THEN LET batch == all_dataframes[OkAmong(k)]
                         IN  /\ Len(RowsOfHour(passed, k - 1)) = Len(batch)
                             /\ \A row \in RowSet(batch) :
                                   CountIn(row, passed) = CountIn(row, batch)
                    ELSE RowsOfHour(passed, k - 1) = <<>>

\* Three hours: a validated batch, a rejected one, a validated one; the
\* insert was made with the rows of the first and the third.
C28_Witness ==
    /\ mpc = "done" /\ Len(hour_outcomes) = 3
    /\ hour_outcomes[1] = "ok" /\ hour_outcomes[2] = "validation_failed"
    /\ hour_outcomes[3] = "ok"
    /\ Len(db_log) = 1 /\ db_log[1].raised = None
    /\ Len(db_log[1].df) = Len(all_dataframes[1]) + Len(all_dataframes[2])
    /\ RowsOfHour(db_log[1].df, 1) = <<>>

\* C29: a run with --dry-run makes no call on the store and leaves its rows
\* and its table as they were, whatever its hours ended with, and when it
\* ends the connection it opened is closed.
C29_DryRunWritesNothing ==
    (mpc # "start" /\ args.dry_run) =>
        /\ db_log = <<>> /\ table = <<>> /\ ~table_exists
        /\ mpc = "done" => db_conn # "open"
        /\ (mpc = "done" /\ Len(attempted) > 0) => db_conn = "closed"

\* A finished dry run with a validated batch and a failed hour.
C29_Witness ==
    /\ mpc = "done" /\ args.dry_run /\ exit_code = "0"
    /\ all_dataframes # <<>>
    /\ \E k \in 1..Len(hour_outcomes) : HourRaised(hour_outcomes[k])
    /\ db_conn = "closed" /\ db_log = <<>> /\ table = <<>>

====
